---------------------------- MODULE Spec2Model ----------------------------
(***************************************************************************)
(* Model of the useFullscreen hook (src/src/use-fullscreen.ts).            *)
(*                                                                         *)
(* The controller owns elementRef.current and the isFullscreen state.      *)
(* The host document owns the four fullscreen-element properties, the exit *)
(* methods, the listener table and the queue of change notifications.      *)
(* The enter/exit/toggle callbacks are closures created by a render: each  *)
(* reads the isFullscreen value of the render that created it.             *)
(***************************************************************************)
EXTENDS Naturals, Sequences, FiniteSets

VARIABLES
    elementRef,    \* elementRef.current: the bound element, or NULL
    everBound,     \* whether elementRef.current has ever been set to an element
    isFullscreen,  \* the useState value, as of the latest render
    closures,      \* isFullscreen values captured by the callbacks rendered so far
    doc,           \* the document's four fullscreen-element properties
    pending,       \* change notifications emitted by the host and not yet dispatched
    listeners,     \* event names handleFullscreenChange is registered on
    inSync,        \* the handler ran and neither the properties nor the ref changed since
    lastCall,      \* the latest enter/exit/toggle call: what it read and what it invoked
    peer           \* a second, subscribed instance of the hook: its ref and its state

vars == <<elementRef, everBound, isFullscreen, closures, doc, pending,
          listeners, inSync, lastCall, peer>>

\* ------------------------------------------------------------------ bounds

\* Notifications the host may have queued at once.
MaxPending == 1

\* ------------------------------------------------------- the host's names

NULL == "null"
DOCUMENT == "document"

\* Elements of the page: E1 and E2 are two distinct element references.
Elements == {"E1", "E2"}
ElementOrNull == Elements \cup {NULL}

\* document.fullscreenElement and its vendor variants, in the order queried.
QueryOrder == <<"fullscreenElement", "webkitFullscreenElement",
                "mozFullScreenElement", "msFullscreenElement">>
QueryNames == {QueryOrder[i] : i \in 1..Len(QueryOrder)}

\* The request methods an element may expose, in the order probed.
RequestOrder == <<"requestFullscreen", "webkitRequestFullscreen",
                  "mozRequestFullScreen", "msRequestFullscreen">>
RequestNames == {RequestOrder[i] : i \in 1..Len(RequestOrder)}

\* The exit methods the document may expose, in the order probed.
ExitOrder == <<"exitFullscreen", "webkitExitFullscreen",
               "mozCancelFullScreen", "msExitFullscreen">>
ExitNames == {ExitOrder[i] : i \in 1..Len(ExitOrder)}

\* The four change-notification names a host may emit.
EventNames == {"fullscreenchange", "webkitfullscreenchange",
               "mozfullscreenchange", "MSFullscreenChange"}

\* Variant: the ms name is added in lower case.
AddedNames_LowerCase == {"fullscreenchange", "webkitfullscreenchange",
                         "mozfullscreenchange", "msfullscreenchange"}

\* The names the effect passes to addEventListener.
AddedNames == {"fullscreenchange", "webkitfullscreenchange",
               "mozfullscreenchange", "MSFullscreenChange"}

\* Variant: the cleanup removes the ms name in lower case.
RemovedNames_LowerCase == {"fullscreenchange", "webkitfullscreenchange",
                           "mozfullscreenchange", "msfullscreenchange"}

\* The names the effect's cleanup passes to removeEventListener.
RemovedNames == {"fullscreenchange", "webkitfullscreenchange",
                 "mozfullscreenchange", "MSFullscreenChange"}

\* ------------------------------------------------------------ pure parts

\* Variant: only the canonical property is consulted.
getFullscreenElement_CanonicalOnly(d) == d["fullscreenElement"]

\* Variant: the moz property is consulted before the webkit one.
getFullscreenElement_MozBeforeWebkit(d) ==
    IF d["fullscreenElement"] # NULL THEN d["fullscreenElement"]
    ELSE IF d["mozFullScreenElement"] # NULL THEN d["mozFullScreenElement"]
    ELSE IF d["webkitFullscreenElement"] # NULL THEN d["webkitFullscreenElement"]
    ELSE IF d["msFullscreenElement"] # NULL THEN d["msFullscreenElement"]
    ELSE NULL

\* a || b || c || d || null over the four document properties.
getFullscreenElement(d) ==
    IF d["fullscreenElement"] # NULL THEN d["fullscreenElement"]
    ELSE IF d["webkitFullscreenElement"] # NULL THEN d["webkitFullscreenElement"]
    ELSE IF d["mozFullScreenElement"] # NULL THEN d["mozFullScreenElement"]
    ELSE IF d["msFullscreenElement"] # NULL THEN d["msFullscreenElement"]
    ELSE NULL

\* Variant: any fullscreen element counts, whichever the ref holds.
SameElement_AnyElement(fullscreenElement, current) == fullscreenElement # NULL

\* fullscreenElement === elementRef.current
SameElement(fullscreenElement, current) == fullscreenElement = current

\* Reading a property of "element" (element.requestFullscreen) throws a
\* TypeError when the element is null.
Throws(element) == element = NULL

\* Variant: the guard tests the flag only.
EnterGuard_FlagOnly(element, flag) == ~flag

\* Variant: the guard tests the element only.
EnterGuard_ElementOnly(element, flag) == element # NULL

\* if (element && !isFullscreen)
EnterGuard(element, flag) == element # NULL /\ ~flag

\* Variant: no guard.
ExitGuard_Always(flag) == TRUE

\* if (isFullscreen)
ExitGuard(flag) == flag

\* Variant: a chain of plain ifs, every present method is invoked.
RequestCalls_NoElse(element, present) ==
    (IF "requestFullscreen" \in present
     THEN <<<<element, "requestFullscreen">>>> ELSE <<>>)
    \o (IF "webkitRequestFullscreen" \in present
        THEN <<<<element, "webkitRequestFullscreen">>>> ELSE <<>>)
    \o (IF "mozRequestFullScreen" \in present
        THEN <<<<element, "mozRequestFullScreen">>>> ELSE <<>>)
    \o (IF "msRequestFullscreen" \in present
        THEN <<<<element, "msRequestFullscreen">>>> ELSE <<>>)

\* The if / else-if chain over the element's request methods: the
\* invocations it makes on an element exposing the methods in "present".
RequestCalls(element, present) ==
    IF "requestFullscreen" \in present
    THEN <<<<element, "requestFullscreen">>>>
    ELSE IF "webkitRequestFullscreen" \in present
    THEN <<<<element, "webkitRequestFullscreen">>>>
    ELSE IF "mozRequestFullScreen" \in present
    THEN <<<<element, "mozRequestFullScreen">>>>
    ELSE IF "msRequestFullscreen" \in present
    THEN <<<<element, "msRequestFullscreen">>>>
    ELSE <<>>

\* Variant: the webkit method is probed before the canonical one.
ExitCalls_WebkitFirst(present) ==
    IF "webkitExitFullscreen" \in present
    THEN <<<<DOCUMENT, "webkitExitFullscreen">>>>
    ELSE IF "exitFullscreen" \in present
    THEN <<<<DOCUMENT, "exitFullscreen">>>>
    ELSE IF "mozCancelFullScreen" \in present
    THEN <<<<DOCUMENT, "mozCancelFullScreen">>>>
    ELSE IF "msExitFullscreen" \in present
    THEN <<<<DOCUMENT, "msExitFullscreen">>>>
    ELSE <<>>

\* The if / else-if chain over the document's exit methods.
ExitCalls(present) ==
    IF "exitFullscreen" \in present
    THEN <<<<DOCUMENT, "exitFullscreen">>>>
    ELSE IF "webkitExitFullscreen" \in present
    THEN <<<<DOCUMENT, "webkitExitFullscreen">>>>
    ELSE IF "mozCancelFullScreen" \in present
    THEN <<<<DOCUMENT, "mozCancelFullScreen">>>>
    ELSE IF "msExitFullscreen" \in present
    THEN <<<<DOCUMENT, "msExitFullscreen">>>>
    ELSE <<>>

\* -------------------------------------------------------------- the hook

\* No call yet.
NoCall ==
    [op |-> "none", flag |-> FALSE, element |-> NULL, passed |-> FALSE,
     probed |-> {}, invoked |-> <<>>, raised |-> FALSE]

\* A second instance as constructed: useRef(null), useState(false).
NoPeer == [elementRef |-> NULL, isFullscreen |-> FALSE]

\* useRef(null), useState(false); the first render's callbacks capture false.
InitHook ==
    /\ elementRef = NULL
    /\ everBound = FALSE
    /\ isFullscreen = FALSE
    /\ closures = {FALSE}
    /\ pending = 0
    /\ listeners = {}
    /\ inSync = FALSE
    /\ lastCall = NoCall

\* Variant: the request also sets the state, without waiting for the host.
EnterBody_Optimistic(op, flag, present) ==
    /\ lastCall' =
           [op |-> op, flag |-> flag, element |-> elementRef,
            passed |-> EnterGuard(elementRef, flag),
            probed |-> IF EnterGuard(elementRef, flag) THEN present ELSE {},
            invoked |-> IF EnterGuard(elementRef, flag)
                        THEN RequestCalls(elementRef, present)
                        ELSE <<>>,
            raised |-> EnterGuard(elementRef, flag) /\ Throws(elementRef)]
    /\ isFullscreen' = (isFullscreen \/ EnterGuard(elementRef, flag))
    /\ closures' = closures \cup {isFullscreen'}
    /\ UNCHANGED <<elementRef, everBound, doc, pending, listeners, inSync, peer>>

\* The body of an enterFullscreen callback that captured "flag", run on an
\* element exposing the request methods "present"; "op" is the operation
\* the consumer called.  The record keeps what the call read: the flag, the
\* element, the methods it found once past the guard, and whether it threw.
EnterBody(op, flag, present) ==
    /\ lastCall' =
           [op |-> op, flag |-> flag, element |-> elementRef,
            passed |-> EnterGuard(elementRef, flag),
            probed |-> IF EnterGuard(elementRef, flag) THEN present ELSE {},
            invoked |-> IF EnterGuard(elementRef, flag)
                        THEN RequestCalls(elementRef, present)
                        ELSE <<>>,
            raised |-> EnterGuard(elementRef, flag) /\ Throws(elementRef)]
    /\ UNCHANGED <<elementRef, everBound, isFullscreen, closures, doc,
                   pending, listeners, inSync, peer>>

\* The body of an exitFullscreen callback that captured "flag", run with
\* the document exposing the exit methods "present".  It does not read the ref.
ExitBody(op, flag, present) ==
    /\ lastCall' =
           [op |-> op, flag |-> flag, element |-> NULL,
            passed |-> ExitGuard(flag),
            probed |-> IF ExitGuard(flag) THEN present ELSE {},
            invoked |-> IF ExitGuard(flag) THEN ExitCalls(present) ELSE <<>>,
            raised |-> FALSE]
    /\ UNCHANGED <<elementRef, everBound, isFullscreen, closures, doc,
                   pending, listeners, inSync, peer>>

\* Variant: the two branches are swapped.
ToggleBody_Swapped(op, flag, present) ==
    IF flag THEN EnterBody(op, flag, present)
            ELSE ExitBody(op, flag, present)

\* The body of a toggleFullscreen callback: it captured "flag" and the exit
\* and enter callbacks of the same render; "present" are the methods of the
\* object the callback it dispatches to probes.
ToggleBody(op, flag, present) ==
    IF flag THEN ExitBody(op, flag, present)
            ELSE EnterBody(op, flag, present)

enterFullscreen(flag, present) ==
    /\ flag \in closures
    /\ EnterBody("enter", flag, present)

exitFullscreen(flag, present) ==
    /\ flag \in closures
    /\ ExitBody("exit", flag, present)

toggleFullscreen(flag, present) ==
    /\ flag \in closures
    /\ ToggleBody("toggle", flag, present)

\* Variant: the listener sets the state to true on a match and never
\* back to false.
handleFullscreenChange_OnlyRaises ==
    /\ isFullscreen' =
           (isFullscreen \/ SameElement(getFullscreenElement(doc), elementRef))
    /\ closures' = closures \cup {isFullscreen'}
    /\ inSync' = TRUE
    /\ UNCHANGED <<elementRef, everBound, doc, listeners, lastCall>>

\* Variant: the listener takes each event as a toggle of the state.
handleFullscreenChange_Toggles ==
    /\ isFullscreen' = ~isFullscreen
    /\ closures' = closures \cup {isFullscreen'}
    /\ inSync' = TRUE
    /\ UNCHANGED <<elementRef, everBound, doc, listeners, lastCall>>

\* The listener: re-queries the document, sets the state; the re-render
\* that follows creates callbacks capturing the new value.
handleFullscreenChange ==
    /\ isFullscreen' = SameElement(getFullscreenElement(doc), elementRef)
    /\ closures' = closures \cup {isFullscreen'}
    /\ inSync' = TRUE
    /\ UNCHANGED <<elementRef, everBound, doc, listeners, lastCall>>

\* Variant: the effect also computes the state once when it subscribes.
Subscribe_InitialSync ==
    /\ listeners = {}
    /\ listeners' = listeners \cup AddedNames
    /\ isFullscreen' = SameElement(getFullscreenElement(doc), elementRef)
    /\ closures' = closures \cup {isFullscreen'}
    /\ inSync' = TRUE
    /\ UNCHANGED <<elementRef, everBound, doc, pending, lastCall, peer>>

\* The effect: the handler is added under the four names.
Subscribe ==
    /\ listeners = {}
    /\ listeners' = listeners \cup AddedNames
    /\ UNCHANGED <<elementRef, everBound, isFullscreen, closures, doc,
                   pending, inSync, lastCall, peer>>

\* The effect's cleanup: the handler is removed from the four names.
Unsubscribe ==
    /\ listeners # {}
    /\ listeners' = listeners \ RemovedNames
    /\ UNCHANGED <<elementRef, everBound, isFullscreen, closures, doc,
                   pending, inSync, lastCall, peer>>

\* The consumer (or React, attaching the ref) sets elementRef.current.
Bind(e) ==
    /\ e # elementRef
    /\ elementRef' = e
    /\ everBound' = (everBound \/ e # NULL)
    /\ inSync' = FALSE
    /\ UNCHANGED <<isFullscreen, closures, doc, pending, listeners, lastCall, peer>>

\* ------------------------------------------------------------- the host

\* Documents on which at most one of the four properties is set: the
\* property names are alternatives, a host reports its target under one.
ExclusiveDocs ==
    {d \in [QueryNames -> ElementOrNull] :
        \A p, q \in QueryNames : (d[p] # NULL /\ d[q] # NULL) => p = q}

\* One fullscreen-element property changes and a notification is queued.
HostSet(p, v) ==
    /\ pending < MaxPending
    /\ doc[p] # v
    /\ doc' = [doc EXCEPT ![p] = v]
    /\ pending' = pending + 1
    /\ inSync' = FALSE
    /\ UNCHANGED <<elementRef, everBound, isFullscreen, closures, listeners,
                   lastCall, peer>>

\* A host changes its fullscreen target: the properties stay exclusive.
HostChange(p, v) ==
    /\ [doc EXCEPT ![p] = v] \in ExclusiveDocs
    /\ HostSet(p, v)

\* A notification with no change behind it: a second, vendor-named event
\* for one transition, or an event dispatched by hand.
HostEmit ==
    /\ pending < MaxPending
    /\ pending' = pending + 1
    /\ UNCHANGED <<elementRef, everBound, isFullscreen, closures, doc,
                   listeners, inSync, lastCall, peer>>

\* The event loop delivers a queued notification under the name "n".
Dispatch(n) ==
    /\ pending > 0
    /\ pending' = pending - 1
    /\ UNCHANGED peer
    /\ IF n \in listeners
       THEN handleFullscreenChange
       ELSE UNCHANGED <<elementRef, everBound, isFullscreen, closures, doc,
                        listeners, inSync, lastCall>>

\* ------------------------------------------------- the hook on a host

\* The document may already show an element in fullscreen when the hook is
\* constructed.
Init ==
    /\ InitHook
    /\ doc \in ExclusiveDocs
    /\ peer = NoPeer

Next ==
    \/ \E f \in closures, p \in SUBSET RequestNames : enterFullscreen(f, p)
    \/ \E f \in closures, p \in SUBSET ExitNames : exitFullscreen(f, p)
    \/ \E f \in closures :
           \E p \in SUBSET (IF f THEN ExitNames ELSE RequestNames) :
               toggleFullscreen(f, p)
    \/ \E e \in ElementOrNull : Bind(e)
    \/ Subscribe
    \/ Unsubscribe
    \/ \E p \in QueryNames, v \in ElementOrNull : HostChange(p, v)
    \/ HostEmit
    \/ \E n \in EventNames : Dispatch(n)

Spec == Init /\ [][Next]_vars

\* ------------------------------- the listener on an arbitrary document

\* A document double may set any combination of the four properties.
InitAnyDocument ==
    /\ InitHook
    /\ doc \in [QueryNames -> ElementOrNull]
    /\ peer = NoPeer

NextAnyDocument ==
    \/ \E e \in ElementOrNull : Bind(e)
    \/ Subscribe
    \/ Unsubscribe
    \/ \E p \in QueryNames, v \in ElementOrNull : HostSet(p, v)
    \/ HostEmit
    \/ \E n \in EventNames : Dispatch(n)

SpecAnyDocument == InitAnyDocument /\ [][NextAnyDocument]_vars

\* The same, with the event loop's guarantee: a queued notification is
\* eventually delivered.
SpecLive ==
    /\ InitAnyDocument
    /\ [][NextAnyDocument]_vars
    /\ WF_vars(\E n \in EventNames : Dispatch(n))

\* ------------------------------------------- two hooks on one document

\* A second instance of the hook on the same document: its own ref, its own
\* state, false at construction. Its ref holds whatever it was given.
InitTwo ==
    /\ InitHook
    /\ doc \in ExclusiveDocs
    /\ peer \in {[elementRef |-> e, isFullscreen |-> FALSE] : e \in ElementOrNull}

\* The second instance's handler: the same computation on its own ref.
peerHandleFullscreenChange ==
    peer' = [peer EXCEPT
                !.isFullscreen = SameElement(getFullscreenElement(doc), peer.elementRef)]

\* One event reaches every registered listener: the second instance stays
\* subscribed, the first is reached if it is subscribed under the name.
DispatchTwo(n) ==
    /\ pending > 0
    /\ pending' = pending - 1
    /\ peerHandleFullscreenChange
    /\ IF n \in listeners
       THEN handleFullscreenChange
       ELSE UNCHANGED <<elementRef, everBound, isFullscreen, closures, doc,
                        listeners, inSync, lastCall>>

NextTwo ==
    \/ \E e \in ElementOrNull : Bind(e)
    \/ Subscribe
    \/ Unsubscribe
    \/ \E p \in QueryNames, v \in ElementOrNull : HostChange(p, v)
    \/ HostEmit
    \/ \E n \in EventNames : DispatchTwo(n)

SpecTwo == InitTwo /\ [][NextTwo]_vars

\* ---------------------------------------------------------- properties

\* The element the host shows in fullscreen, whichever property reports it
\* (NULL if none does).  On a host the properties are exclusive, so it is unique.
HostTarget ==
    IF \E p \in QueryNames : doc[p] # NULL
    THEN CHOOSE e \in Elements : \E p \in QueryNames : doc[p] = e
    ELSE NULL

\* The first non-absent value of d in the order of QueryOrder, NULL if all
\* four are absent.
FirstNonAbsent(d) ==
    LET set == {i \in 1..Len(QueryOrder) : d[QueryOrder[i]] # NULL}
    IN  IF set = {} THEN NULL
        ELSE d[QueryOrder[CHOOSE i \in set : \A j \in set : i <= j]]

\* The one invocation of the first name of "order" that is in "present" on
\* "target", none if no name of "order" is in "present".
FirstPresentOnly(target, order, present) ==
    LET set == {i \in 1..Len(order) : order[i] \in present}
    IN  IF set = {} THEN <<>>
        ELSE <<<<target, order[CHOOSE i \in set : \A j \in set : i <= j]>>>>

\* A step in which a dispatched notification ran the handler.
HandlerRan == pending = pending' + 1 /\ listeners # {}

\* C1: right after the change-notification handler runs, isFullscreen
\* equals (the target the document reports is the very element the ref
\* holds), the ref being read when the handler runs.
C1_FlagDerivedByHandler ==
    [][HandlerRan =>
          isFullscreen' = (getFullscreenElement(doc') = elementRef')]_vars

\* C1 witness: the handler ran after the ref was set to E2 and found E2
\* reported by a vendor property only.
C1_Witness ==
    /\ inSync /\ isFullscreen /\ elementRef = "E2"
    /\ doc["fullscreenElement"] = NULL
    /\ doc["mozFullScreenElement"] = "E2"

C3_OnlyHandlerChangesFlag ==
    [][/\ lastCall' # lastCall => isFullscreen' = isFullscreen
       /\ isFullscreen' # isFullscreen => HandlerRan]_vars

\* C3 witness: enter issued a request on a false flag, no notification
\* followed, and the flag is false and has never been true.
C3_Witness ==
    /\ lastCall.op = "enter" /\ lastCall.invoked # <<>>
    /\ ~isFullscreen /\ closures = {FALSE} /\ pending = 0

\* C4: enterFullscreen called while the flag it reads is true invokes no
\* request method, whatever the element exposes.
C4_EnterWhileFullscreen ==
    (lastCall.op = "enter" /\ lastCall.flag) => lastCall.invoked = <<>>

\* C4 witness: enter was called on a bound element with the flag true.
C4_Witness ==
    /\ lastCall.op = "enter" /\ lastCall.flag /\ isFullscreen
    /\ lastCall.element = "E1" /\ elementRef = "E1"

\* C5: exitFullscreen called while the flag it reads is false invokes no
\* exit method, even when the host has a fullscreen target.
C5_ExitWhileNotFullscreen ==
    (lastCall.op = "exit" /\ ~lastCall.flag) => lastCall.invoked = <<>>

\* C5 witness: exit was called with the flag false while the bound element
\* is the host's fullscreen target.
C5_Witness ==
    /\ lastCall.op = "exit" /\ ~lastCall.flag
    /\ closures = {FALSE} /\ elementRef = "E1" /\ HostTarget = "E1"

\* C6: a toggleFullscreen call makes the invocations, and leaves the state,
\* that exitFullscreen makes when the flag is true and that enterFullscreen
\* makes when the flag is false.
C6_ToggleDelegates ==
    [][(lastCall'.op = "toggle" /\ lastCall' # lastCall) =>
          IF lastCall'.flag
          THEN ExitBody("toggle", lastCall'.flag, lastCall'.probed)
          ELSE EnterBody("toggle", lastCall'.flag, lastCall'.probed)]_vars

\* C6 witness: toggle, called with the flag true, invoked a vendor exit
\* method of the document.
C6_Witness ==
    /\ lastCall.op = "toggle" /\ lastCall.flag
    /\ lastCall.invoked = <<<<DOCUMENT, "webkitExitFullscreen">>>>

\* C7, as stated: while no element has been bound, no call of enter, exit
\* or toggle invokes a request or exit method.
C7_NullHandleInvokesNothing ==
    (~everBound /\ lastCall.op # "none") => lastCall.invoked = <<>>

\* C8: past its guard (element bound, flag false), enterFullscreen invokes
\* on the element exactly the first request method present in
\* RequestOrder, and nothing if none is present.
C8_EnterInvokesFirstPresent ==
    (lastCall.op = "enter" /\ lastCall.element # NULL /\ ~lastCall.flag) =>
        /\ lastCall.passed
        /\ lastCall.invoked =
              FirstPresentOnly(lastCall.element, RequestOrder, lastCall.probed)

\* C8 witness: an element exposing two vendor methods and not the canonical
\* one got the earlier of the two invoked once.
C8_Witness ==
    /\ lastCall.op = "enter"
    /\ lastCall.probed = {"webkitRequestFullscreen", "msRequestFullscreen"}
    /\ lastCall.invoked = <<<<"E1", "webkitRequestFullscreen">>>>

\* C9: with the flag true, exitFullscreen invokes on the document exactly
\* the first exit method present in ExitOrder, and nothing if none is
\* present.
C9_ExitInvokesFirstPresent ==
    (lastCall.op = "exit" /\ lastCall.flag) =>
        /\ lastCall.passed
        /\ lastCall.invoked =
              FirstPresentOnly(DOCUMENT, ExitOrder, lastCall.probed)

\* C9 witness: a document exposing the canonical and a vendor exit method
\* got the canonical one invoked once.
C9_Witness ==
    /\ lastCall.op = "exit"
    /\ lastCall.probed = {"exitFullscreen", "webkitExitFullscreen"}
    /\ lastCall.invoked = <<<<DOCUMENT, "exitFullscreen">>>>

\* C10: the query returns the first non-absent of the four properties in
\* the order of QueryOrder, for every combination of them, and NULL when
\* all four are absent.
C10_QueryFirstNonAbsent ==
    getFullscreenElement(doc) = FirstNonAbsent(doc)

\* C10 witness: the handler queried a document with three properties set
\* at once, to different elements, and took the webkit one.
C10_Witness ==
    /\ doc["fullscreenElement"] = NULL
    /\ doc["webkitFullscreenElement"] = "E2"
    /\ doc["mozFullScreenElement"] = "E1"
    /\ doc["msFullscreenElement"] = "E1"
    /\ inSync /\ isFullscreen /\ elementRef = "E2"

\* The controller is active: its handler is registered.
Active == listeners # {}

\* C11: activation registers the handler under the four event names,
\* deactivation removes it from all of them so that no listener remains,
\* and while none is registered a dispatched notification, under any name,
\* neither runs the handler nor changes the flag.
C11_SubscriptionSymmetry ==
    [][/\ (listeners = {} /\ listeners' # {}) => listeners' = EventNames
       /\ (listeners # {} /\ listeners' # listeners) => listeners' = {}
       /\ (listeners = {} /\ pending = pending' + 1) =>
             UNCHANGED <<isFullscreen, closures, inSync>>]_vars

\* C11 witness: after deactivation the target changed from the bound
\* element to none, the notification was dispatched, and the flag kept the
\* value it had at deactivation.
C11_Witness ==
    /\ listeners = {} /\ isFullscreen /\ elementRef = "E1"
    /\ HostTarget = NULL /\ pending = 0

\* C12, as stated: when the handle is stale (it held an element and was
\* reset to null), the flag the handler computes is false, whatever the
\* document reports, no fullscreen target included.
C12_StaleHandleReportsFalse ==
    (inSync /\ everBound /\ elementRef = NULL) => ~isFullscreen

\* C13, as stated: the guard of every enter, exit or toggle call reads the
\* flag as written by the most recently processed notification (the
\* initial false if none), whichever callback reference the call goes
\* through.
C13_GuardReadsLatestFlag ==
    [][lastCall' # lastCall => lastCall'.flag = isFullscreen]_vars

\* A step in which enter, exit or toggle was called (and the call differs
\* from the one before it).
CallMade == lastCall' # lastCall

\* C14: the scenario, step by step.  The flag starts false; with E bound,
\* enter() on a false flag invokes E's canonical request method once and
\* leaves the flag; a notification with E as target makes the flag true;
\* toggle() on a true flag invokes the document's canonical exit method
\* once and leaves the flag; a notification with no target makes the flag
\* false.
C14_Scenario ==
    /\ ~isFullscreen
    /\ [][/\ (CallMade /\ lastCall'.op = "enter" /\ elementRef \in Elements
                 /\ ~lastCall'.flag) =>
                /\ lastCall'.passed
                /\ "requestFullscreen" \in lastCall'.probed =>
                      lastCall'.invoked = <<<<elementRef, "requestFullscreen">>>>
                /\ isFullscreen' = isFullscreen
          /\ (HandlerRan /\ elementRef \in Elements /\ HostTarget = elementRef) =>
                isFullscreen'
          /\ (CallMade /\ lastCall'.op = "toggle" /\ lastCall'.flag) =>
                /\ lastCall'.passed
                /\ "exitFullscreen" \in lastCall'.probed =>
                      lastCall'.invoked = <<<<DOCUMENT, "exitFullscreen">>>>
                /\ isFullscreen' = isFullscreen
          /\ (HandlerRan /\ elementRef \in Elements /\ HostTarget = NULL) =>
                ~isFullscreen']_vars

\* C14 witness: the end of the scenario.  toggle was called with the flag
\* true and invoked the canonical exit method, then a notification with no
\* target was processed and the flag is false.
C14_Witness ==
    /\ lastCall.op = "toggle" /\ lastCall.flag
    /\ lastCall.invoked = <<<<DOCUMENT, "exitFullscreen">>>>
    /\ elementRef = "E1" /\ HostTarget = NULL
    /\ inSync /\ ~isFullscreen /\ pending = 0

\* C15: no call of enter, exit or toggle throws; a call that finds no
\* capability on the object it probes (or stops at its guard) invokes
\* nothing and leaves the controller and the document as they were; and
\* the query yields NULL when none of the four properties is set.
C15_NoErrorNoCapability ==
    /\ [][CallMade =>
             /\ ~lastCall'.raised
             /\ lastCall'.probed = {} =>
                   /\ lastCall'.invoked = <<>>
                   /\ UNCHANGED <<elementRef, isFullscreen, closures, doc,
                                  pending, listeners>>]_vars
    /\ []((\A p \in QueryNames : doc[p] = NULL) =>
             getFullscreenElement(doc) = NULL)

\* C15 witness: enter passed its guard on a bound element exposing none of
\* the four request methods and invoked nothing, and the document reports
\* no target.
C15_Witness ==
    /\ lastCall.op = "enter" /\ lastCall.passed /\ lastCall.element = "E1"
    /\ lastCall.probed = {} /\ lastCall.invoked = <<>> /\ ~lastCall.raised
    /\ \A p \in QueryNames : doc[p] = NULL

\* C16: while the controller is active, a notification delivered under any
\* of the four event names runs the handler, which recomputes the flag
\* from the document and the ref alone.
C16_EveryNameRunsHandler ==
    [][\A n \in EventNames :
           (Active /\ Dispatch(n)) =>
               /\ isFullscreen' = (getFullscreenElement(doc) = elementRef)
               /\ inSync']_vars

\* C16 witness: an active controller processed a notification on a host
\* that reports its target under the ms property only.
C16_Witness ==
    /\ Active /\ inSync /\ isFullscreen /\ elementRef = "E2"
    /\ doc["msFullscreenElement"] = "E2"
    /\ \A p \in QueryNames \ {"msFullscreenElement"} : doc[p] = NULL

\* The flag agrees with the document and the ref.
FlagAgrees == isFullscreen = (getFullscreenElement(doc) = elementRef)

C19_AtMostOneFullscreen ==
    [][HandlerRan => ~(isFullscreen' /\ peer'.isFullscreen)]_vars

\* C20: a notification processed when the handler has already run since
\* the last change of the document's properties or of the handle leaves
\* the flag as the earlier run left it.
C20_HandlerIdempotent ==
    [][(HandlerRan /\ inSync) => isFullscreen' = isFullscreen]_vars

\* C20 witness: the handler has run for a bound element in fullscreen and
\* a further notification is queued with nothing changed in between.
C20_Witness ==
    /\ Active /\ inSync /\ pending > 0
    /\ isFullscreen /\ elementRef = "E2" /\ HostTarget = "E2"

=============================================================================
